---- MODULE Spec2Model ----
(***************************************************************************)
(* PhotoMind - streaming photo import.                                     *)
(*                                                                         *)
(* The model covers one streaming task: the TaskService record             *)
(* (services/task_service.py), the ImportStreamManager worker and the SSE  *)
(* generator event_stream (routers/import_stream.py), together with the    *)
(* outcomes of the stage functions the worker calls (EXIFService.extract,  *)
(* GeocodingService.reverse_geocode, VisionService.analyze_photo,          *)
(* VectorService.add_photo).                                               *)
(*                                                                         *)
(* Worker steps are the calls of send_event / update_task / complete_task; *)
(* session steps are the stretches of event_stream between two             *)
(* suspension points (yield / await queue.get()).  Everything runs on one  *)
(* asyncio event loop: a session runs only while the worker is suspended   *)
(* in an await that yields to the loop.                                    *)
(***************************************************************************)
EXTENDS Integers, Sequences, FiniteSets, TLC

\* ------------------------------------------------------------------ bounds
\* Largest batch a client uploads.
MaxPhotos == 3

\* Largest last_index a client sends.
MaxCursor == 2

\* Size of the batch that outgrows the stored event list.
LongPhotos == 20

\* Largest last_index a client sends for a finished task (a one-photo batch
\* emits seven events).
LateCursor == 8

\* Longest event list built by direct TaskService calls.
MaxEvents == 2

\* _process_loop tasks created, and photos handed to the processor
MaxLoops == 2

MaxQueued == 2

\* ------------------------------------------------------- program constants
\* task_service.py:105 - only the most recent 100 events are kept.
EventLimit == 100

\* ------------------------------------------------------------------- state
VARIABLES
    task,           \* TaskService record of the task id (NoTask before create_task)
    manager,        \* ImportStreamManager: total, processed, failed
    wk,             \* position of process_files / process_photo and its locals
    files,          \* saved_paths handed to process_files
    queues,         \* asyncio.Queue objects: contents by queue identity
    active_queues,  \* the module-level registry entry for the task id
    sessions,       \* running event_stream generators
    stored,         \* photos handed to vector_service.add_photo
    emitted,        \* history: every event passed to send_event, in order
    reply,          \* history: the last request to each entry point and its answer
    import_tasks,   \* photo_import.import_tasks entry of the batch task id
    bw,             \* position of process_uploaded_files and its file_paths
    temp_dir,       \* the upload's temporary directory: "none" | "exists" | "removed"
    scored,         \* history: the last call of _compute_overall and its result
    is_running,     \* PhotoProcessor._is_running
    loops,          \* the _process_loop tasks created by start(), by position
    pqueue,         \* PhotoProcessor._queue
    stats,          \* PhotoProcessor._stats
    stopped         \* history: stop() has returned and start() was not called since

\* The state of module photo_import.
photo_import == <<import_tasks, bw, temp_dir>>

\* The state of module import_stream and of the TaskService record.
import_stream == <<task, manager, wk, files, queues, active_queues, sessions,
                   stored, emitted>>

\* The state of the PhotoProcessor singleton.
photo_processor == <<is_running, loops, pqueue, stats, stopped>>

vars == <<task, manager, wk, files, queues, active_queues, sessions, stored, emitted,
          reply, photo_import, scored, photo_processor>>

\* Stream sessions, named in the order in which they are opened.
Sessions == {"s1", "s2"}

\* The manager's queue, and one identity per queue a session may create.
QueueIds == {"mgr"} \cup Sessions

NoTask == [status |-> "absent", total |-> 0, processed |-> 0, failed |-> 0,
           events |-> <<>>, current_file |-> 0]

NoQueue == "none"

NoImportTask ==
    [status |-> "absent", total |-> 0, processed |-> 0, failed |-> 0,
     current_file |-> 0]

\* ------------------------------------------------------------ photo inputs
\* What the stage functions do with one uploaded file.
\*   file   : "ok" | "corrupt"   (corrupt: PIL cannot open the file)
\*   gps    : EXIF carries GPS coordinates (both non-zero: the worker tests
\*            them for truth, import_stream.py:102)
\*   geo    : reverse_geocode returns a non-empty address (FALSE: no
\*            geocoder is configured and the call returns None at once)
\*   vision : "ok"        provider answered with parsable JSON
\*            "bad_tags"  as ok, but tags holds non-string items
\*            "fail"      non-200 status, network error or unparsable content
Photo(file, gps, geo, vision) ==
    [file |-> file, gps |-> gps, geo |-> geo, vision |-> vision]

PhotoInputs ==
    { Photo("ok", FALSE, FALSE, "ok"),
      Photo("ok", TRUE,  TRUE,  "ok"),
      Photo("ok", TRUE,  FALSE, "ok"),
      Photo("ok", FALSE, FALSE, "bad_tags"),
      Photo("ok", FALSE, FALSE, "fail"),
      Photo("corrupt", FALSE, FALSE, "fail") }

RECURSIVE SeqsUpTo(_, _)
SeqsUpTo(S, n) ==
    IF n = 0 THEN { <<>> }
    ELSE LET shorter == SeqsUpTo(S, n - 1)
         IN  shorter \cup { Append(q, x) : q \in { r \in shorter : Len(r) = n - 1 }, x \in S }

Batches == { b \in SeqsUpTo(PhotoInputs, MaxPhotos) : Len(b) >= 1 }

\* The uploads the gateway is exercised with: one photo that is stored, one
\* photo whose processing raises.
StreamBatches ==
    { << Photo("ok", FALSE, FALSE, "ok") >>,
      << Photo("ok", FALSE, FALSE, "bad_tags") >> }

\* ------------------------------------------------------------- submission
\* An uploaded file's name: stem and extension as the client wrote them.
FileName(stem, ext) == [stem |-> stem, ext |-> ext]

\* The names requests are built from: "a.PNG", "a.txt" and ".jpg".
FileNames ==
    { FileName("a", ".PNG"), FileName("a", ".txt"), FileName("", ".jpg") }

\* str.lower() on the extensions that occur.
Lower(ext) ==
    CASE ext = ".PNG" -> ".png"
      [] ext = ".JPG" -> ".jpg"
      [] OTHER -> ext

\* os.path.splitext(name)[1]: a name that is only a leading dot and letters
\* (".jpg") has no extension.
SplitExt(name) == IF name.stem = "" THEN "" ELSE name.ext

image_extensions == {".jpg", ".jpeg", ".png", ".gif", ".bmp", ".webp", ".tiff"}

\* [f for f in files if os.path.splitext(f.filename.lower())[1] in image_extensions]
ImageFiles(us) ==
    SelectSeq(us, LAMBDA f : SplitExt(FileName(f.stem, Lower(f.ext))) \in image_extensions)

\* The requests a client sends: one to MaxPhotos files.
Uploads == { us \in SeqsUpTo(FileNames, MaxPhotos) : Len(us) >= 1 }

\* A request of k image files.
JpegUpload(k) == [n \in 1..k |-> FileName("a", ".jpg")]

NoReply == [request |-> <<>>, status |-> 0, total |-> 0]

Reply(us, status, total) == [request |-> us, status |-> status, total |-> total]

\* ------------------------------------------------------------------ events
\* {"type": ..., "data": {...}}; photo stands for photo_id / filename
\* (0 where the data has none), overall is the overall score in tenths.
Event(type, photo, current, total, processed, failed, overall) ==
    [type |-> type, photo |-> photo, current |-> current, total |-> total,
     processed |-> processed, failed |-> failed, overall |-> overall,
     timestamp |-> FALSE]

\* task_service.py:99-102 - the stored copy carries a timestamp.
WithTimestamp(e) == [e EXCEPT !.timestamp = TRUE]

\* The event a message carries, whatever its serialisation.
EventOf(m) == [m EXCEPT !.timestamp = FALSE]

Sentinel == Event("None", 0, 0, 0, 0, 0, 0)

Terminal(t) == t.status \in {"completed", "failed"}

\* ------------------------------------------------------------ TaskService
CreateTask(total) ==
    [status |-> "pending", total |-> total, processed |-> 0, failed |-> 0,
     events |-> <<>>, current_file |-> 0]

LastN(s, n) == IF Len(s) > n THEN SubSeq(s, Len(s) - n + 1, Len(s)) ELSE s

AppendEvent(events, e) == LastN(Append(events, WithTimestamp(e)), EventLimit)

\* update_task(task_id, {"status": ..., "current_file": ...})
UpdateStatus(t, status, current_file) ==
    IF t.status = "absent" THEN t
    ELSE [t EXCEPT !.status = status, !.current_file = current_file]

\* update_task(task_id, {"processed", "failed", "current_file"}, add_event=e)
UpdateProgress(t, processed, failed, e) ==
    IF t.status = "absent" THEN t
    ELSE [t EXCEPT !.processed = processed, !.failed = failed,
                   !.current_file = e.photo,
                   !.events = AppendEvent(t.events, e)]

CompleteTaskRecord(t, success) ==
    IF t.status = "absent" THEN t
    ELSE [t EXCEPT !.status = IF success THEN "completed" ELSE "failed"]

\* get_task_events(task_id, after_index) / task["events"][last_event_index:]
EventsFrom(events, c) ==
    IF c >= Len(events) THEN <<>> ELSE SubSeq(events, c + 1, Len(events))

\* ------------------------------------------------- vision_service: scoring
\* Python floats are IEEE-754 doubles, and the scores are decided by their
\* rounding, so the arithmetic is modelled exactly.  A natural number is a
\* sequence of limbs, least significant first, without leading zero limbs; a
\* double is [m, e] with value m * 2^e and m below 2^53.  The scores stay far
\* from the subnormal and the overflow range.
LimbBits == 15

Base == 2 ^ LimbBits

Mantissa == 53

RECURSIVE Norm(_)
Norm(a) ==
    IF a = <<>> THEN <<>>
    ELSE IF a[Len(a)] = 0 THEN Norm(SubSeq(a, 1, Len(a) - 1)) ELSE a

RECURSIVE BigOf(_)
BigOf(n) == IF n = 0 THEN <<>> ELSE <<n % Base>> \o BigOf(n \div Base)

RECURSIVE IntOf(_)
IntOf(a) == IF a = <<>> THEN 0 ELSE Head(a) + Base * IntOf(Tail(a))

Limb(a, i) == IF i <= Len(a) THEN a[i] ELSE 0

RECURSIVE AddFrom(_, _, _, _)
AddFrom(a, b, i, carry) ==
    IF i > Len(a) /\ i > Len(b)
    THEN BigOf(carry)
    ELSE LET t == Limb(a, i) + Limb(b, i) + carry
         IN  <<t % Base>> \o AddFrom(a, b, i + 1, t \div Base)

BigAdd(a, b) == Norm(AddFrom(a, b, 1, 0))

RECURSIVE MulSmall(_, _, _)
MulSmall(a, d, carry) ==
    IF a = <<>>
    THEN BigOf(carry)
    ELSE LET t == Head(a) * d + carry
         IN  <<t % Base>> \o MulSmall(Tail(a), d, t \div Base)

RECURSIVE BigMul(_, _)
BigMul(a, b) ==
    IF a = <<>> \/ b = <<>>
    THEN <<>>
    ELSE BigAdd(Norm(MulSmall(a, Head(b), 0)), Norm(<<0>> \o BigMul(a, Tail(b))))

RECURSIVE LessFrom(_, _, _)
LessFrom(a, b, i) ==
    IF i = 0 THEN FALSE
    ELSE IF a[i] # b[i] THEN a[i] < b[i] ELSE LessFrom(a, b, i - 1)

BigLess(a, b) ==
    IF Len(a) # Len(b) THEN Len(a) < Len(b) ELSE LessFrom(a, b, Len(a))

\* a divided by the small d: quotient limbs from the top, and the remainder
RECURSIVE DivSmall(_, _, _)
DivSmall(a, d, rem) ==
    IF a = <<>>
    THEN [q |-> <<>>, r |-> rem]
    ELSE LET t == rem * Base + a[Len(a)]
             rest == DivSmall(SubSeq(a, 1, Len(a) - 1), d, t % d)
         IN  [q |-> Append(rest.q, t \div d), r |-> rest.r]

Zeros(n) == [i \in 1..n |-> 0]

ShiftLeft(a, s) ==
    Norm(Zeros(s \div LimbBits) \o MulSmall(a, 2 ^ (s % LimbBits), 0))

ShiftRight(a, s) ==
    IF s \div LimbBits >= Len(a)
    THEN <<>>
    ELSE Norm(DivSmall(SubSeq(a, s \div LimbBits + 1, Len(a)), 2 ^ (s % LimbBits), 0).q)

LowBits(a, s) ==
    LET n == s \div LimbBits
    IN  IF n >= Len(a)
        THEN a
        ELSE Norm(SubSeq(a, 1, n) \o <<a[n + 1] % (2 ^ (s % LimbBits))>>)

RECURSIVE SmallBits(_)
SmallBits(n) == IF n = 0 THEN 0 ELSE 1 + SmallBits(n \div 2)

BitLen(a) ==
    IF a = <<>> THEN 0 ELSE LimbBits * (Len(a) - 1) + SmallBits(a[Len(a)])

IsOdd(a) == a # <<>> /\ a[1] % 2 = 1

\* a / 2^s rounded to the nearest integer, ties to even; sticky tells that
\* the exact value lies above a / 2^s
RoundShift(a, s, sticky) ==
    IF s = 0
    THEN a
    ELSE LET q == ShiftRight(a, s)
             low == LowBits(a, s)
             half == ShiftLeft(<<1>>, s - 1)
             up == \/ BigLess(half, low)
                   \/ low = half /\ (sticky \/ IsOdd(q))
         IN  IF up THEN BigAdd(q, <<1>>) ELSE q

\* The double nearest to m * 2^e (above it, if sticky), ties to even.
RoundDouble(m, e, sticky) ==
    IF BitLen(m) <= Mantissa
    THEN [m |-> m, e |-> e]
    ELSE LET s == BitLen(m) - Mantissa
         IN  [m |-> RoundShift(m, s, sticky), e |-> e + s]

\* The double nearest to n / d, as float() and the parsers of literals and
\* of decimal strings give it (n and d small naturals, d > 0).  The quotient
\* is taken with Guard binary places, more than a double holds.
Guard == 75

Double(n, d) ==
    LET y == DivSmall(ShiftLeft(BigOf(n), Guard), d, 0)
    IN  RoundDouble(Norm(y.q), 0 - Guard, y.r # 0)

Min(a, b) == IF a < b THEN a ELSE b

\* Both mantissas over the smaller exponent.
Aligned(x, y) ==
    LET e == Min(x.e, y.e)
    IN  [x |-> ShiftLeft(x.m, x.e - e), y |-> ShiftLeft(y.m, y.e - e), e |-> e]

\* The operations of Python on floats are functions of the values of their
\* operands, as in Python, where the operands are evaluated first.
Doubles == [m : Seq(Nat), e : Int]

\* x + y and x * y
FloatAdd ==
    [x \in Doubles, y \in Doubles |->
        LET a == Aligned(x, y) IN RoundDouble(BigAdd(a.x, a.y), a.e, FALSE)]

FloatMul ==
    [x \in Doubles, y \in Doubles |->
        RoundDouble(BigMul(x.m, y.m), x.e + y.e, FALSE)]

FloatLess(x, y) ==
    LET a == Aligned(x, y) IN BigLess(a.x, a.y)

\* min(x, y) and max(x, y)
FloatMin == [x \in Doubles, y \in Doubles |-> IF FloatLess(y, x) THEN y ELSE x]

FloatMax == [x \in Doubles, y \in Doubles |-> IF FloatLess(x, y) THEN y ELSE x]

\* x / 4.0 : exact
Quarter == [x \in Doubles |-> [x EXCEPT !.e = @ - 2]]

\* round(x, 1) in tenths: the decimal with one digit nearest to the exact
\* value of x, ties to even
Tenths(x) ==
    LET y == MulSmall(x.m, 10, 0)
    IN  IntOf(IF x.e >= 0 THEN ShiftLeft(Norm(y), x.e)
              ELSE RoundShift(Norm(y), 0 - x.e, FALSE))

\* round(x, 1) : that decimal, read back as a float
Round1 == [x \in Doubles |-> Double(Tenths(x), 10)]

\* What the model's analysis may hold in a score field: nothing usable (the
\* field is absent, null or no number), or the number h / 100.
None == <<>>

Number(h) == <<h>>

\* lines 26-31: _safe_score(value, default), default a float
SafeScore(value, default) ==
    LET score == IF value = None THEN default ELSE Double(value[1], 100)
    IN  Round1[FloatMin[FloatMax[score, Double(1, 1)], Double(5, 1)]]

\* line 26: default: float = 2.8
DefaultScore == Double(28, 10)

\* Mutant: the creativity term is left out of the blend.
ComputeOverallNoCreativity(composition, color, lighting, sharpness, creativity) ==
    LET c1 == SafeScore(composition, DefaultScore)
        c2 == SafeScore(color, DefaultScore)
        c3 == SafeScore(lighting, DefaultScore)
        c4 == SafeScore(sharpness, DefaultScore)
        overall ==
            FloatAdd[FloatAdd[FloatAdd[
                FloatMul[c1, Double(25, 100)],
                FloatMul[c2, Double(2, 10)]],
                FloatMul[c3, Double(25, 100)]],
                FloatMul[c4, Double(2, 10)]]
    IN  Round1[FloatMin[FloatMax[overall, Double(1, 1)], Double(5, 1)]]

\* lines 107-122: _compute_overall; the sums run from left to right
ComputeOverall(composition, color, lighting, sharpness, creativity) ==
    LET c1 == SafeScore(composition, DefaultScore)
        c2 == SafeScore(color, DefaultScore)
        c3 == SafeScore(lighting, DefaultScore)
        c4 == SafeScore(sharpness, DefaultScore)
        cr == SafeScore(creativity,
                  Quarter[FloatAdd[FloatAdd[FloatAdd[c1, c2], c3], c4]])
        overall ==
            FloatAdd[FloatAdd[FloatAdd[FloatAdd[
                FloatMul[c1, Double(25, 100)],
                FloatMul[c2, Double(2, 10)]],
                FloatMul[c3, Double(25, 100)]],
                FloatMul[c4, Double(2, 10)]],
                FloatMul[cr, Double(1, 10)]]
    IN  Round1[FloatMin[FloatMax[overall, Double(1, 1)], Double(5, 1)]]

\* ------------------------------------------------------------ stage calls
\* VisionService.analyze_photo never raises: every failure path returns a
\* dictionary without "scores".
AnalyzePhoto(p) ==
    IF p.vision = "fail" THEN [signal |-> "fallback", scores |-> FALSE, overall |-> 0]
    ELSE [signal |-> "result", scores |-> TRUE, overall |-> 37]

\* PhotoScores(composition=float(scores_data.get("composition", 0)), ...)
PhotoScores(result) == IF result.scores THEN result.overall ELSE 0

\* ' '.join(metadata['tags']) raises TypeError on a non-string tag.
BuildDocumentRaises(p) == p.vision = "bad_tags"

\* -------------------------------------------------- ImportStreamManager
\* Mutant: the queue holds one item and put waits until a listener took it.
SendEventBounded(e, m) ==
    /\ queues["mgr"] = <<>>
    /\ queues' = [queues EXCEPT !["mgr"] = Append(@, e)]
    /\ task' = UpdateProgress(task, m.processed, m.failed, e)
    /\ emitted' = Append(emitted, e)

\* send_event: queue.put(event_json), then update_task(..., add_event=event)
SendEvent(e, m) ==
    /\ queues' = [queues EXCEPT !["mgr"] = Append(@, e)]
    /\ task' = UpdateProgress(task, m.processed, m.failed, e)
    /\ emitted' = Append(emitted, e)

Idle == [pc |-> "idle", i |-> 0, location |-> FALSE, overall |-> 0]

\* An event_stream generator not yet started.  pc is the suspension point,
\* queue the queue object it holds, buf the rest of the replay slice, out the
\* messages sent to the client.  History: after is the set of sessions
\* that had already ended when the stream was opened, opened the status the
\* record had then.
NewSession ==
    [pc |-> "new", queue |-> NoQueue, cursor |-> 0, buf |-> <<>>, out |-> <<>>,
     after |-> {}, opened |-> "none"]

BatchIdle == [pc |-> "idle", i |-> 0, file_paths |-> <<>>, added |-> {}]

\* No call of _compute_overall yet.
NoScore == [args |-> <<>>, overall |-> [m |-> <<>>, e |-> 0]]

\* The _process_loop tasks, numbered in the order in which start() creates
\* them.
LoopIds == 1..MaxLoops

\* A loop task not created yet: pc is its suspension point ("created": not
\* run yet, "get": in wait_for(queue.get()), "photo": in the awaits of
\* _process_photo, "sleep": in its asyncio.sleep, "exited"), photo the item
\* it is processing.
NoLoop == [pc |-> "none", photo |-> 0]

\* _stats as the class defines it (0 for None).
NoStats ==
    [pending |-> 0, processing |-> 0, completed |-> 0, failed |-> 0,
     current_photo |-> 0]

Init ==
    /\ task = NoTask
    /\ manager = [total |-> 0, processed |-> 0, failed |-> 0]
    /\ wk = Idle
    /\ files = <<>>
    /\ queues = [q \in QueueIds |-> <<>>]
    /\ active_queues = NoQueue
    /\ sessions = [s \in Sessions |-> NewSession]
    /\ stored = {}
    /\ emitted = <<>>
    /\ reply = [stream |-> NoReply, batch |-> NoReply,
                create_task |-> [outcome |-> "none", total |-> 0]]
    /\ import_tasks = NoImportTask
    /\ bw = BatchIdle
    /\ temp_dir = "none"
    /\ scored = NoScore
    /\ is_running = FALSE
    /\ loops = [l \in LoopIds |-> NoLoop]
    /\ pqueue = <<>>
    /\ stats = NoStats
    /\ stopped = FALSE

\* Mutant: the task is created for every uploaded file, filtered or not.
StartStreamImportCountsAll(us, fs) ==
    /\ wk.pc = "idle"
    /\ task = NoTask
    /\ LET image_files == ImageFiles(us)
       IN  IF image_files = <<>>
           THEN /\ reply' = [reply EXCEPT !.stream = Reply(us, 400, 0)]
                /\ UNCHANGED <<task, files, active_queues, wk>>
           ELSE /\ Len(fs) = Len(image_files)
                /\ task' = CreateTask(Len(us))
                /\ files' = fs
                /\ active_queues' = "mgr"
                /\ wk' = [wk EXCEPT !.pc = "start"]
                /\ reply' = [reply EXCEPT !.stream = Reply(us, 200, Len(fs))]
    /\ UNCHANGED <<manager, queues, sessions, stored, emitted, photo_import>>
    /\ UNCHANGED <<scored, photo_processor>>

\* Mutant: the manager's queue is not registered for the task id.
StartStreamImportUnregistered(us, fs) ==
    /\ wk.pc = "idle"
    /\ task = NoTask
    /\ LET image_files == ImageFiles(us)
       IN  IF image_files = <<>>
           THEN /\ reply' = [reply EXCEPT !.stream = Reply(us, 400, 0)]
                /\ UNCHANGED <<task, files, active_queues, wk>>
           ELSE /\ Len(fs) = Len(image_files)
                /\ task' = CreateTask(Len(image_files))
                /\ files' = fs
                /\ UNCHANGED active_queues
                /\ wk' = [wk EXCEPT !.pc = "start"]
                /\ reply' = [reply EXCEPT !.stream = Reply(us, 200, Len(fs))]
    /\ UNCHANGED <<manager, queues, sessions, stored, emitted, photo_import>>
    /\ UNCHANGED <<scored, photo_processor>>

\* POST /api/import-stream/upload with the files us, whose image files are
\* the photos fs: filter, 400 if nothing is left, else create_task, save the
\* files, register the manager's queue, spawn process_files.
StartStreamImport(us, fs) ==
    /\ wk.pc = "idle"
    /\ task = NoTask
    /\ LET image_files == ImageFiles(us)
       IN  IF image_files = <<>>
           THEN /\ reply' = [reply EXCEPT !.stream = Reply(us, 400, 0)]
                /\ UNCHANGED <<task, files, active_queues, wk>>
           ELSE /\ Len(fs) = Len(image_files)
                /\ task' = CreateTask(Len(image_files))
                /\ files' = fs
                /\ active_queues' = "mgr"
                /\ wk' = [wk EXCEPT !.pc = "start"]
                /\ reply' = [reply EXCEPT !.stream = Reply(us, 200, Len(fs))]
    /\ UNCHANGED <<manager, queues, sessions, stored, emitted, photo_import>>
    /\ UNCHANGED <<scored, photo_processor>>

\* start_stream_import for a request of image files only.
Upload(fs) == StartStreamImport(JpegUpload(Len(fs)), fs)

\* Mutant: the task is marked processing as soon as process_files starts.
ImportStartMarksProcessing ==
    /\ wk.pc = "start"
    /\ LET m == [manager EXCEPT !.total = Len(files)]
           e == Event("import_start", 0, 0, m.total, 0, 0, 0)
       IN  /\ manager' = m
           /\ queues' = [queues EXCEPT !["mgr"] = Append(@, e)]
           /\ task' = UpdateProgress(UpdateStatus(task, "processing", 0), 0, 0, e)
           /\ emitted' = Append(emitted, e)
    /\ wk' = [wk EXCEPT !.pc = "loop"]
    /\ UNCHANGED <<files, active_queues, sessions, stored>>
    /\ UNCHANGED <<reply, photo_import>>
    /\ UNCHANGED <<scored, photo_processor>>

\* process_files, lines 193-198
ImportStart ==
    /\ wk.pc = "start"
    /\ LET m == [manager EXCEPT !.total = Len(files)]
       IN  /\ manager' = m
           /\ SendEvent(Event("import_start", 0, 0, m.total, 0, 0, 0), m)
    /\ wk' = [wk EXCEPT !.pc = "loop"]
    /\ UNCHANGED <<files, active_queues, sessions, stored>>
    /\ UNCHANGED <<reply, photo_import>>
    /\ UNCHANGED <<scored, photo_processor>>

\* process_photo, lines 63-81
PhotoStart ==
    /\ wk.pc = "loop"
    /\ wk.i < Len(files)
    /\ LET n == wk.i + 1
           e == Event("photo_start", n, manager.processed + 1, manager.total, 0, 0, 0)
       IN  /\ queues' = [queues EXCEPT !["mgr"] = Append(@, e)]
           /\ task' = UpdateProgress(UpdateStatus(task, "processing", n),
                                     manager.processed, manager.failed, e)
           /\ emitted' = Append(emitted, e)
           /\ wk' = [pc |-> "exif", i |-> n, location |-> FALSE, overall |-> 0]
    /\ UNCHANGED <<manager, files, active_queues, sessions, stored>>
    /\ UNCHANGED <<reply, photo_import>>
    /\ UNCHANGED <<scored, photo_processor>>

\* process_photo, lines 84-99: EXIFService.extract swallows every error.
ExifExtracted ==
    /\ wk.pc = "exif"
    /\ SendEvent(Event("exif_extracted", wk.i, 0, 0, 0, 0, 0), manager)
    /\ wk' = [wk EXCEPT !.pc = "geocode"]
    /\ UNCHANGED <<manager, files, active_queues, sessions, stored>>
    /\ UNCHANGED <<reply, photo_import>>
    /\ UNCHANGED <<scored, photo_processor>>

\* Mutant: location_found is sent for every photo that carries coordinates.
GeocodeAnyAnswer ==
    /\ wk.pc = "geocode"
    /\ LET p == files[wk.i]
       IN  IF p.gps
           THEN /\ SendEvent(Event("location_found", wk.i, 0, 0, 0, 0, 0), manager)
                /\ wk' = [wk EXCEPT !.pc = "analyzing", !.location = TRUE]
           ELSE /\ wk' = [wk EXCEPT !.pc = "analyzing"]
                /\ UNCHANGED <<task, queues, emitted>>
    /\ UNCHANGED <<manager, files, active_queues, sessions, stored>>
    /\ UNCHANGED <<reply, photo_import>>
    /\ UNCHANGED <<scored, photo_processor>>

\* process_photo, lines 102-115
Geocode ==
    /\ wk.pc = "geocode"
    /\ LET p == files[wk.i]
       IN  IF p.gps /\ p.geo
           THEN /\ SendEvent(Event("location_found", wk.i, 0, 0, 0, 0, 0), manager)
                /\ wk' = [wk EXCEPT !.pc = "analyzing", !.location = TRUE]
           ELSE /\ wk' = [wk EXCEPT !.pc = "analyzing"]
                /\ UNCHANGED <<task, queues, emitted>>
    /\ UNCHANGED <<manager, files, active_queues, sessions, stored>>
    /\ UNCHANGED <<reply, photo_import>>
    /\ UNCHANGED <<scored, photo_processor>>

\* process_photo, lines 118-122
AiAnalyzing ==
    /\ wk.pc = "analyzing"
    /\ SendEvent(Event("ai_analyzing", wk.i, 0, 0, 0, 0, 0), manager)
    /\ wk' = [wk EXCEPT !.pc = "vision"]
    /\ UNCHANGED <<manager, files, active_queues, sessions, stored>>
    /\ UNCHANGED <<reply, photo_import>>
    /\ UNCHANGED <<scored, photo_processor>>

\* process_photo, lines 124-145
AiComplete ==
    /\ wk.pc = "vision"
    /\ LET overall == PhotoScores(AnalyzePhoto(files[wk.i]))
       IN  /\ SendEvent(Event("ai_complete", wk.i, 0, 0, 0, 0, overall), manager)
           /\ wk' = [wk EXCEPT !.pc = "store", !.overall = overall]
    /\ UNCHANGED <<manager, files, active_queues, sessions, stored>>
    /\ UNCHANGED <<reply, photo_import>>
    /\ UNCHANGED <<scored, photo_processor>>

\* Mutant: the search document is built after photo_complete was sent, so a
\* TypeError is raised once the photo has been reported complete.
PhotoCompleteThenDocument ==
    /\ wk.pc = "store"
    /\ stored' = stored \cup {wk.i}
    /\ SendEvent(Event("photo_complete", wk.i, 0, 0, 0, 0, wk.overall), manager)
    /\ IF BuildDocumentRaises(files[wk.i])
       THEN /\ wk' = [wk EXCEPT !.pc = "except"]
            /\ UNCHANGED manager
       ELSE /\ manager' = [manager EXCEPT !.processed = @ + 1]
            /\ wk' = [wk EXCEPT !.pc = "sleep"]
    /\ UNCHANGED <<files, active_queues, sessions>>
    /\ UNCHANGED <<reply, photo_import>>
    /\ UNCHANGED <<scored, photo_processor>>

\* process_photo, lines 148-180
PhotoComplete ==
    /\ wk.pc = "store"
    /\ IF BuildDocumentRaises(files[wk.i])
       THEN /\ wk' = [wk EXCEPT !.pc = "except"]
            /\ UNCHANGED <<task, manager, queues, stored, emitted>>
       ELSE /\ stored' = stored \cup {wk.i}
            /\ SendEvent(Event("photo_complete", wk.i, 0, 0, 0, 0, wk.overall), manager)
            /\ manager' = [manager EXCEPT !.processed = @ + 1]
            /\ wk' = [wk EXCEPT !.pc = "sleep"]
    /\ UNCHANGED <<files, active_queues, sessions>>
    /\ UNCHANGED <<reply, photo_import>>
    /\ UNCHANGED <<scored, photo_processor>>

\* process_photo, line 180: asyncio.sleep(0.5) is over
Sleep ==
    /\ wk.pc = "sleep"
    /\ wk' = [wk EXCEPT !.pc = "loop"]
    /\ UNCHANGED <<task, manager, files, queues, active_queues, sessions, stored, emitted>>
    /\ UNCHANGED <<reply, photo_import>>
    /\ UNCHANGED <<scored, photo_processor>>

\* Mutant: the except branch reports the error without counting it.
PhotoErrorUncounted ==
    /\ wk.pc = "except"
    /\ SendEvent(Event("photo_error", wk.i, 0, 0, 0, 0, 0), manager)
    /\ wk' = [wk EXCEPT !.pc = "loop"]
    /\ UNCHANGED <<manager, files, active_queues, sessions, stored>>
    /\ UNCHANGED <<reply, photo_import>>
    /\ UNCHANGED <<scored, photo_processor>>

\* process_photo, lines 182-189
PhotoError ==
    /\ wk.pc = "except"
    /\ LET m == [manager EXCEPT !.failed = @ + 1]
       IN  /\ manager' = m
           /\ SendEvent(Event("photo_error", wk.i, 0, 0, 0, 0, 0), m)
    /\ wk' = [wk EXCEPT !.pc = "loop"]
    /\ UNCHANGED <<files, active_queues, sessions, stored>>
    /\ UNCHANGED <<reply, photo_import>>
    /\ UNCHANGED <<scored, photo_processor>>

\* process_files, lines 204-209
ImportComplete ==
    /\ wk.pc = "loop"
    /\ wk.i = Len(files)
    /\ SendEvent(Event("import_complete", 0, 0, manager.total,
                       manager.processed, manager.failed, 0), manager)
    /\ wk' = [wk EXCEPT !.pc = "complete"]
    /\ UNCHANGED <<manager, files, active_queues, sessions, stored>>
    /\ UNCHANGED <<reply, photo_import>>
    /\ UNCHANGED <<scored, photo_processor>>

\* Mutant: the task is completed as a success whatever the failed count.
CompleteTaskAsSuccess ==
    /\ wk.pc = "complete"
    /\ task' = CompleteTaskRecord(task, TRUE)
    /\ queues' = [queues EXCEPT !["mgr"] = Append(@, Sentinel)]
    /\ wk' = [wk EXCEPT !.pc = "done"]
    /\ UNCHANGED <<manager, files, active_queues, sessions, stored, emitted>>
    /\ UNCHANGED <<reply, photo_import>>
    /\ UNCHANGED <<scored, photo_processor>>

\* process_files, lines 212-216
CompleteTask ==
    /\ wk.pc = "complete"
    /\ task' = CompleteTaskRecord(task, manager.failed = 0)
    /\ queues' = [queues EXCEPT !["mgr"] = Append(@, Sentinel)]
    /\ wk' = [wk EXCEPT !.pc = "done"]
    /\ UNCHANGED <<manager, files, active_queues, sessions, stored, emitted>>
    /\ UNCHANGED <<reply, photo_import>>
    /\ UNCHANGED <<scored, photo_processor>>

Worker ==
    \/ ImportStart
    \/ PhotoStart
    \/ ExifExtracted
    \/ Geocode
    \/ AiAnalyzing
    \/ AiComplete
    \/ PhotoComplete
    \/ Sleep
    \/ PhotoError
    \/ ImportComplete
    \/ CompleteTask

\* The worker is where the event loop can run something else: not started
\* yet, awaiting the geocoder's or the vision provider's HTTP answer (a
\* corrupt file fails in _prepare_image_base64 before any request is made),
\* in asyncio.sleep, or returned.  queue.put on the unbounded queue and the
\* TaskService calls do not yield.
Suspended ==
    \/ wk.pc \in {"idle", "start", "sleep", "done"}
    \/ wk.pc = "geocode" /\ files[wk.i].gps /\ files[wk.i].geo
    \/ wk.pc = "vision" /\ files[wk.i].file = "ok"

\* ------------------------------------------------------------ event_stream
\* Messages the generator builds itself.
ErrorEvent == Event("error", 0, 0, 0, 0, 0, 0)

CompleteMarker == Event("complete", 0, 0, 0, 0, 0, 0)

\* line 243: the summary built from the stored totals
SummaryEvent(t) == Event("import_complete", 0, 0, t.total, t.processed, t.failed, 0)

\* Mutant: the replay ignores the cursor and sends the whole record.
ReplaySliceWhole(t, c) ==
    IF c > 0 /\ t.events # <<>> THEN t.events ELSE <<>>

\* line 237: task["events"][last_event_index:], taken only for a cursor > 0
ReplaySlice(t, c) ==
    IF c > 0 /\ t.events # <<>> THEN EventsFrom(t.events, c) ELSE <<>>

\* lines 229-232: the registered queue, or a new one that is then registered
AttachQueue(s) == IF active_queues = NoQueue THEN s ELSE active_queues

\* lines 263-266: the entry of the task id is deleted, whoever registered it
Finally == NoQueue

Deliver(sess, m, pc) == [sess EXCEPT !.out = Append(@, m), !.pc = pc]

\* lines 248-261, up to the next suspension point
TailLoop(s, sess) ==
    LET q == queues[sess.queue]
    IN  IF q = <<>>
        THEN /\ sessions' = [sessions EXCEPT ![s] = [sess EXCEPT !.pc = "wait"]]
             /\ UNCHANGED queues
        ELSE /\ queues' = [queues EXCEPT ![sess.queue] = Tail(q)]
             /\ sessions' = [sessions EXCEPT ![s] =
                    IF Head(q) = Sentinel
                    THEN Deliver(sess, CompleteMarker, "ending")
                    ELSE Deliver(sess, Head(q), "live")]

\* lines 242-261, entered when the replay is over
AfterReplay(s, sess) ==
    IF Terminal(task)
    THEN /\ sessions' = [sessions EXCEPT ![s] = Deliver(sess, SummaryEvent(task), "summary")]
         /\ UNCHANGED queues
    ELSE TailLoop(s, sess)

\* A queue nobody will put to again: one the worker does not hold, or the
\* worker's once process_files has returned.  Between two events of a running
\* worker less than the 300 s of line 251 pass (the stage calls are bounded).
Starved(q) == q # "mgr" \/ wk.pc = "done"

\* Mutant: the queue is registered before the task is looked up.
OpenRegistersFirst(s, c) ==
    /\ Suspended
    /\ sessions[s].pc = "new"
    /\ s = "s2" => sessions["s1"].pc # "new"
    /\ IF task = NoTask
       THEN /\ sessions' = [sessions EXCEPT ![s] =
                   Deliver(@, ErrorEvent, "closed")]
            /\ active_queues' = AttachQueue(s)
            /\ UNCHANGED queues
       ELSE LET replay == ReplaySlice(task, c)
                sess == [sessions[s] EXCEPT
                            !.queue = AttachQueue(s), !.cursor = c,
                            !.after = { t \in Sessions : sessions[t].pc = "closed" },
                            !.opened = task.status]
            IN  /\ active_queues' = AttachQueue(s)
                /\ IF replay # <<>>
                   THEN /\ sessions' = [sessions EXCEPT ![s] =
                               [Deliver(sess, Head(replay), "replay") EXCEPT !.buf = Tail(replay)]]
                        /\ UNCHANGED queues
                   ELSE AfterReplay(s, sess)
    /\ UNCHANGED <<task, manager, wk, files, stored, emitted>>
    /\ UNCHANGED <<reply, photo_import>>
    /\ UNCHANGED <<scored, photo_processor>>

\* GET /events/{task_id}?last_index=c : lines 223-239, up to the first
\* suspension point.  Without a record the generator yields its error event
\* and returns at line 226, before the queue lookup of line 229 (the endpoint
\* answers 404 at line 336 on the same lookup).
Open(s, c) ==
    /\ Suspended
    /\ sessions[s].pc = "new"
    /\ s = "s2" => sessions["s1"].pc # "new"
    /\ IF task = NoTask
       THEN /\ sessions' = [sessions EXCEPT ![s] =
                   Deliver(@, ErrorEvent, "closed")]
            /\ UNCHANGED <<queues, active_queues>>
       ELSE LET replay == ReplaySlice(task, c)
                sess == [sessions[s] EXCEPT
                            !.queue = AttachQueue(s), !.cursor = c,
                            !.after = { t \in Sessions : sessions[t].pc = "closed" },
                            !.opened = task.status]
            IN  /\ active_queues' = AttachQueue(s)
                /\ IF replay # <<>>
                   THEN /\ sessions' = [sessions EXCEPT ![s] =
                               [Deliver(sess, Head(replay), "replay") EXCEPT !.buf = Tail(replay)]]
                        /\ UNCHANGED queues
                   ELSE AfterReplay(s, sess)
    /\ UNCHANGED <<task, manager, wk, files, stored, emitted>>
    /\ UNCHANGED <<reply, photo_import>>
    /\ UNCHANGED <<scored, photo_processor>>

\* The client reads on: the generator runs from a yield to the next
\* suspension point.
Resume(s) ==
    LET sess == sessions[s]
    IN  /\ Suspended
        /\ sess.pc \in {"replay", "live", "summary"}
        /\ CASE sess.pc = "replay" /\ sess.buf # <<>> ->
                  /\ sessions' = [sessions EXCEPT ![s] =
                         [Deliver(sess, Head(sess.buf), "replay") EXCEPT !.buf = Tail(sess.buf)]]
                  /\ UNCHANGED queues
             [] sess.pc = "replay" /\ sess.buf = <<>> -> AfterReplay(s, sess)
             [] sess.pc = "live" -> TailLoop(s, sess)
             [] sess.pc = "summary" ->
                  /\ sessions' = [sessions EXCEPT ![s] = Deliver(sess, CompleteMarker, "ending")]
                  /\ UNCHANGED queues
        /\ UNCHANGED <<task, manager, wk, files, active_queues, stored, emitted>>
        /\ UNCHANGED <<reply, photo_import>>
        /\ UNCHANGED <<scored, photo_processor>>

\* line 251: queue.get() returns to a waiting session
Get(s) ==
    /\ Suspended
    /\ sessions[s].pc = "wait"
    /\ queues[sessions[s].queue] # <<>>
    /\ TailLoop(s, sessions[s])
    /\ UNCHANGED <<task, manager, wk, files, active_queues, stored, emitted>>
    /\ UNCHANGED <<reply, photo_import>>
    /\ UNCHANGED <<scored, photo_processor>>

\* lines 252-254: nothing arrived for 300 s
Timeout(s) ==
    /\ Suspended
    /\ sessions[s].pc = "wait"
    /\ queues[sessions[s].queue] = <<>>
    /\ Starved(sessions[s].queue)
    /\ sessions' = [sessions EXCEPT ![s] = Deliver(@, ErrorEvent, "ending")]
    /\ UNCHANGED <<task, manager, wk, files, queues, active_queues, stored, emitted>>
    /\ UNCHANGED <<reply, photo_import>>
    /\ UNCHANGED <<scored, photo_processor>>

\* The generator returns after its last message: the finally block runs.
Close(s) ==
    /\ Suspended
    /\ sessions[s].pc = "ending"
    /\ sessions' = [sessions EXCEPT ![s].pc = "closed"]
    /\ active_queues' = Finally
    /\ UNCHANGED <<task, manager, wk, files, queues, stored, emitted>>
    /\ UNCHANGED <<reply, photo_import>>
    /\ UNCHANGED <<scored, photo_processor>>

\* The client goes away before the stream has ended: the generator is closed
\* where it is suspended and the finally block runs.
Disconnect(s) ==
    /\ Suspended
    /\ sessions[s].pc \in {"replay", "live", "summary", "wait"}
    /\ sessions' = [sessions EXCEPT ![s].pc = "closed"]
    /\ active_queues' = Finally
    /\ UNCHANGED <<task, manager, wk, files, queues, stored, emitted>>
    /\ UNCHANGED <<reply, photo_import>>
    /\ UNCHANGED <<scored, photo_processor>>

Gateway ==
    \/ \E s \in Sessions, c \in 0..MaxCursor : Open(s, c)
    \/ \E s \in Sessions : Resume(s)
    \/ \E s \in Sessions : Get(s)
    \/ \E s \in Sessions : Timeout(s)
    \/ \E s \in Sessions : Close(s)
    \/ \E s \in Sessions : Disconnect(s)

\* The whole service: uploads, the worker and the stream sessions.
Next ==
    \/ \E fs \in StreamBatches : Upload(fs)
    \/ Worker
    \/ Gateway

Spec == Init /\ [][Next]_vars

\* The worker alone, over every batch of up to MaxPhotos photos.
NextWorker ==
    \/ \E fs \in Batches : Upload(fs)
    \/ Worker

SpecWorker == Init /\ [][NextWorker]_vars

\* The worker is an asyncio task: the event loop resumes it whenever the call
\* it awaits has returned.
SpecWorkerFair == SpecWorker /\ WF_vars(Worker)

\* The worker on one long batch of like photos.
LongBatches ==
    { [n \in 1..LongPhotos |-> p] : p \in PhotoInputs }

NextLong ==
    \/ \E fs \in LongBatches : Upload(fs)
    \/ Worker

SpecLong == Init /\ [][NextLong]_vars

\* GET /events/{task_id}?last_index=c once process_files has returned.
OpenFinished(s, c) == wk.pc = "done" /\ Open(s, c)

\* ------------------------------------------------- TaskService, called directly
\* task_service.create_task(task_id, "stream", total, files): returns the
\* new record.
TaskCreate(total) ==
    /\ task' = CreateTask(total)
    /\ reply' = [reply EXCEPT !.create_task = [outcome |-> "returned", total |-> total]]
    /\ UNCHANGED <<manager, wk, files, queues, active_queues, sessions, stored,
                   emitted, photo_import>>
    /\ UNCHANGED <<scored, photo_processor>>

\* task_service.update_task(task_id, {processed, failed, current_file}, add_event=e)
TaskUpdate(processed, failed, e) ==
    /\ Len(task.events) < MaxEvents
    /\ task' = UpdateProgress(task, processed, failed, e)
    /\ UNCHANGED <<manager, wk, files, queues, active_queues, sessions, stored,
                   emitted, reply, photo_import>>
    /\ UNCHANGED <<scored, photo_processor>>

\* task_service.complete_task(task_id, success)
TaskComplete(success) ==
    /\ task' = CompleteTaskRecord(task, success)
    /\ UNCHANGED <<manager, wk, files, queues, active_queues, sessions, stored,
                   emitted, reply, photo_import>>
    /\ UNCHANGED <<scored, photo_processor>>

\* Events passed to update_task.
TaskEvents ==
    { Event("photo_start", 1, 1, 1, 0, 0, 0), Event("photo_complete", 1, 0, 0, 0, 0, 37) }

\* The task store under arbitrary calls for one task id.
NextTasks ==
    \/ \E total \in 1..MaxPhotos : TaskCreate(total)
    \/ \E processed \in 0..1, failed \in 0..1, e \in TaskEvents : TaskUpdate(processed, failed, e)
    \/ \E success \in BOOLEAN : TaskComplete(success)

SpecTasks == Init /\ [][NextTasks]_vars

\* ------------------------------------------------------------ photo_import
\* POST /api/import/upload with the files us, whose image files are the
\* photos fs; savable tells whether every file can be written to the
\* temporary directory (FALSE: open or write raises OSError).
UploadPhotos(us, fs, savable) ==
    /\ bw.pc = "idle"
    /\ import_tasks = NoImportTask
    /\ temp_dir = "none"
    /\ LET image_files == ImageFiles(us)
       IN  IF image_files = <<>>
           THEN /\ reply' = [reply EXCEPT !.batch = Reply(us, 400, 0)]
                /\ UNCHANGED photo_import
           ELSE IF ~savable
           THEN /\ temp_dir' = "exists"
                /\ reply' = [reply EXCEPT !.batch = Reply(us, 500, 0)]
                /\ UNCHANGED <<import_tasks, bw>>
           ELSE /\ Len(fs) = Len(image_files)
                /\ temp_dir' = "exists"
                /\ import_tasks' = [status |-> "pending", total |-> Len(fs),
                                    processed |-> 0, failed |-> 0, current_file |-> 0]
                /\ bw' = [BatchIdle EXCEPT !.pc = "queued", !.file_paths = fs]
                /\ reply' = [reply EXCEPT !.batch = Reply(us, 200, Len(fs))]
    /\ UNCHANGED import_stream
    /\ UNCHANGED <<scored, photo_processor>>

\* process_uploaded_files, lines 171-176
BatchStart ==
    /\ bw.pc = "queued"
    /\ import_tasks' = [import_tasks EXCEPT !.status = "processing",
                                            !.total = Len(bw.file_paths)]
    /\ bw' = [bw EXCEPT !.pc = "loop"]
    /\ UNCHANGED <<temp_dir, reply, import_stream>>
    /\ UNCHANGED <<scored, photo_processor>>

\* process_uploaded_files, lines 179-181
BatchTake ==
    /\ bw.pc = "loop"
    /\ bw.i < Len(bw.file_paths)
    /\ import_tasks' = [import_tasks EXCEPT !.current_file = bw.i + 1,
                                            !.processed = bw.i + 1]
    /\ bw' = [bw EXCEPT !.pc = "photo", !.i = bw.i + 1]
    /\ UNCHANGED <<temp_dir, reply, import_stream>>
    /\ UNCHANGED <<scored, photo_processor>>

\* process_uploaded_files, lines 183-224: the photo is added to the vector
\* store, or building its document raises and the failure is counted.
BatchOutcome ==
    /\ bw.pc = "photo"
    /\ IF BuildDocumentRaises(bw.file_paths[bw.i])
       THEN /\ import_tasks' = [import_tasks EXCEPT !.failed = @ + 1]
            /\ bw' = [bw EXCEPT !.pc = "loop"]
       ELSE /\ bw' = [bw EXCEPT !.pc = "loop", !.added = @ \cup {bw.i}]
            /\ UNCHANGED import_tasks
    /\ UNCHANGED <<temp_dir, reply, import_stream>>
    /\ UNCHANGED <<scored, photo_processor>>

\* process_uploaded_files, lines 226-228
BatchComplete ==
    /\ bw.pc = "loop"
    /\ bw.i = Len(bw.file_paths)
    /\ import_tasks' = [import_tasks EXCEPT !.status = "completed"]
    /\ bw' = [bw EXCEPT !.pc = "finally"]
    /\ UNCHANGED <<temp_dir, reply, import_stream>>
    /\ UNCHANGED <<scored, photo_processor>>

\* process_uploaded_files, lines 234-241
BatchFinally ==
    /\ bw.pc = "finally"
    /\ temp_dir' = "removed"
    /\ bw' = [bw EXCEPT !.pc = "done"]
    /\ UNCHANGED <<import_tasks, reply, import_stream>>
    /\ UNCHANGED <<scored, photo_processor>>

BatchWorker ==
    \/ BatchStart
    \/ BatchTake
    \/ BatchOutcome
    \/ BatchComplete
    \/ BatchFinally

\* The photos the batch worker is exercised with: its only failure is the
\* document that cannot be built.
BatchFiles ==
    { b \in SeqsUpTo({ Photo("ok", FALSE, FALSE, "ok"),
                       Photo("ok", FALSE, FALSE, "bad_tags") }, MaxPhotos) : Len(b) >= 1 }

\* The batch upload: requests, some of which cannot be saved, and its worker.
NextBatch ==
    \/ \E us \in Uploads, fs \in BatchFiles, savable \in BOOLEAN : UploadPhotos(us, fs, savable)
    \/ BatchWorker

SpecBatch == Init /\ [][NextBatch]_vars

\* ------------------------------------------------------------- submission
\* Batches of sound photos.
SoundBatches ==
    { [n \in 1..k |-> Photo("ok", FALSE, FALSE, "ok")] : k \in 1..MaxPhotos }

\* The two submission endpoints, with uploads that can be saved, and the
\* first step of the worker each of them starts.
NextSubmit ==
    \/ \E us \in Uploads, fs \in SoundBatches : StartStreamImport(us, fs)
    \/ ImportStart
    \/ \E us \in Uploads, fs \in SoundBatches : UploadPhotos(us, fs, TRUE)
    \/ BatchStart

SpecSubmit == Init /\ [][NextSubmit]_vars

\* Streams requested once the worker has returned.
NextSummary ==
    \/ \E fs \in StreamBatches : Upload(fs)
    \/ Worker
    \/ \E s \in Sessions, c \in 0..LateCursor : OpenFinished(s, c)
    \/ \E s \in Sessions : Resume(s)
    \/ \E s \in Sessions : Close(s)
    \/ \E s \in Sessions : Disconnect(s)

SpecSummary == Init /\ [][NextSummary]_vars

\* ------------------------------------------------ _compute_overall, called
\* Score fields of an analysis: absent, below and above the range, and
\* numbers of the range.
ScoreInputs ==
    {None, Number(0), Number(100), Number(300), Number(390), Number(400), Number(650)}

CreativityInputs == {None, Number(450)}

\* vision_service.py:259 : one call of _compute_overall
CallComputeOverall(composition, color, lighting, sharpness, creativity) ==
    /\ scored.args = <<>>
    /\ scored' = [args |-> <<composition, color, lighting, sharpness, creativity>>,
                  overall |-> ComputeOverall(composition, color, lighting,
                                             sharpness, creativity)]
    /\ UNCHANGED <<import_stream, reply, photo_import, photo_processor>>

NextScores ==
    \E composition \in ScoreInputs, color \in ScoreInputs,
       lighting \in ScoreInputs, sharpness \in ScoreInputs,
       creativity \in CreativityInputs :
        CallComputeOverall(composition, color, lighting, sharpness, creativity)

SpecScores == Init /\ [][NextScores]_vars

\* ------------------------------------------------------- PhotoProcessor
\* The photos handed to the processor so far.
Added ==
    Len(pqueue) + stats.completed + stats.failed
        + Cardinality({ l \in LoopIds : loops[l].pc \in {"photo", "sleep"} })

NoFreeLoop == \A l \in LoopIds : loops[l].pc # "none"

FreeLoop == CHOOSE l \in LoopIds : loops[l].pc = "none" /\ \A k \in 1..(l - 1) : loops[k].pc # "none"

\* line 45: asyncio.create_task(self._process_loop())
CreateLoop == [loops EXCEPT ![FreeLoop] = [pc |-> "created", photo |-> 0]]

\* start(), lines 36-45 (main.py:137): nothing if the flag is set, else set
\* it and create a loop task.  The call does not suspend.
Start ==
    /\ ~is_running => ~NoFreeLoop
    /\ is_running' = TRUE
    /\ loops' = IF is_running THEN loops ELSE CreateLoop
    /\ stopped' = FALSE
    /\ UNCHANGED <<pqueue, stats>>
    /\ UNCHANGED <<import_stream, reply, photo_import, scored>>

\* stop(), lines 47-53 (main.py:145): the flag is cleared; _current_task is
\* None, since nothing ever assigns it, so line 52 is not reached and the
\* call returns without suspending.
Stop ==
    /\ is_running' = FALSE
    /\ stopped' = TRUE
    /\ UNCHANGED <<loops, pqueue, stats>>
    /\ UNCHANGED <<import_stream, reply, photo_import, scored>>

\* photos.py:168-170 : start() unless the flag is set, then add_photo (lines
\* 55-64): put on the unbounded queue, pending += 1.
UploadPhoto ==
    /\ Added < MaxQueued
    /\ ~is_running => ~NoFreeLoop
    /\ is_running' = TRUE
    /\ loops' = IF is_running THEN loops ELSE CreateLoop
    /\ stopped' = (is_running /\ stopped)
    /\ pqueue' = Append(pqueue, Added + 1)
    /\ stats' = [stats EXCEPT !.pending = @ + 1]
    /\ UNCHANGED <<import_stream, reply, photo_import, scored>>

\* lines 73-75: the loop l has an item
Take(l, st) ==
    [loops |-> [loops EXCEPT ![l] = [pc |-> "photo", photo |-> Head(pqueue)]],
     pqueue |-> Tail(pqueue),
     stats |-> [st EXCEPT !.pending = @ - 1, !.processing = 1,
                          !.current_photo = Head(pqueue)]]

\* lines 68-71: the loop l at its while test, with the stats st.  It returns
\* if the flag is clear; else it suspends in wait_for(queue.get()), or, where
\* wait_for awaits the call itself and an item is there, has the item at
\* once.
Enter(l, st) ==
    IF ~is_running
    THEN {[loops |-> [loops EXCEPT ![l] = [pc |-> "exited", photo |-> 0]],
          pqueue |-> pqueue, stats |-> st]}
    ELSE {[loops |-> [loops EXCEPT ![l] = [pc |-> "get", photo |-> 0]],
           pqueue |-> pqueue, stats |-> st]}
         \cup (IF pqueue # <<>> THEN {Take(l, st)} ELSE {})

\* The event loop runs the new task for the first time.
LoopRun(l) ==
    /\ loops[l].pc = "created"
    /\ \E o \in Enter(l, stats) :
          /\ loops' = o.loops
          /\ pqueue' = o.pqueue
          /\ stats' = o.stats
    /\ UNCHANGED <<is_running, stopped>>
    /\ UNCHANGED <<import_stream, reply, photo_import, scored>>

\* line 71: queue.get() returns an item to the waiting loop
LoopGet(l) ==
    /\ loops[l].pc = "get"
    /\ pqueue # <<>>
    /\ loops' = Take(l, stats).loops
    /\ pqueue' = Take(l, stats).pqueue
    /\ stats' = Take(l, stats).stats
    /\ UNCHANGED <<is_running, stopped>>
    /\ UNCHANGED <<import_stream, reply, photo_import, scored>>

\* lines 83-84: nothing arrived for 1 s; continue with the while test
LoopTimeout(l) ==
    /\ loops[l].pc = "get"
    /\ pqueue = <<>>
    /\ \E o \in Enter(l, stats) :
          /\ loops' = o.loops
          /\ pqueue' = o.pqueue
          /\ stats' = o.stats
    /\ UNCHANGED <<is_running, stopped>>
    /\ UNCHANGED <<import_stream, reply, photo_import, scored>>

\* lines 80-81, and 68-71 again
Continue(l, st) ==
    Enter(l, [st EXCEPT !.processing = 0, !.current_photo = 0])

\* _process_photo, lines 90-168: the stages succeed (completed += 1, then
\* asyncio.sleep(0.5)), or one raises (failed += 1, and the call returns).
ProcessPhoto(l, success) ==
    /\ loops[l].pc = "photo"
    /\ IF success
       THEN /\ stats' = [stats EXCEPT !.completed = @ + 1]
            /\ loops' = [loops EXCEPT ![l].pc = "sleep"]
            /\ UNCHANGED pqueue
       ELSE \E o \in Continue(l, [stats EXCEPT !.failed = @ + 1]) :
              /\ loops' = o.loops
              /\ pqueue' = o.pqueue
              /\ stats' = o.stats
    /\ UNCHANGED <<is_running, stopped>>
    /\ UNCHANGED <<import_stream, reply, photo_import, scored>>

\* line 149: the sleep is over, _process_photo returns
PhotoDone(l) ==
    /\ loops[l].pc = "sleep"
    /\ \E o \in Continue(l, stats) :
          /\ loops' = o.loops
          /\ pqueue' = o.pqueue
          /\ stats' = o.stats
    /\ UNCHANGED <<is_running, stopped>>
    /\ UNCHANGED <<import_stream, reply, photo_import, scored>>

NextProcessor ==
    \/ Start
    \/ Stop
    \/ UploadPhoto
    \/ \E l \in LoopIds : LoopRun(l)
    \/ \E l \in LoopIds : LoopGet(l)
    \/ \E l \in LoopIds : LoopTimeout(l)
    \/ \E l \in LoopIds, success \in BOOLEAN : ProcessPhoto(l, success)
    \/ \E l \in LoopIds : PhotoDone(l)

SpecProcessor == Init /\ [][NextProcessor]_vars

\* ================================================================== claims
Range(q) == { q[k] : k \in 1..Len(q) }

\* The events of a list of messages.
Events(q) == [k \in 1..Len(q) |-> EventOf(q[k])]

\* Positions in the emission history.
Emitted(type) == { k \in 1..Len(emitted) : emitted[k].type = type }

EmittedFor(n, types) ==
    { k \in 1..Len(emitted) : emitted[k].photo = n /\ emitted[k].type \in types }

Outcomes(n) == EmittedFor(n, {"photo_complete", "photo_error"})

\* C1: in every state of the task record processed + failed <= total, and
\* processed + failed = total once the status is completed or failed.
C1_CountersWithinTotal ==
    task # NoTask =>
        /\ task.processed + task.failed <= task.total
        /\ Terminal(task) => task.processed + task.failed = task.total

\* A finished batch that mixes stored and failed photos.
C1_Witness ==
    /\ Terminal(task)
    /\ task.processed >= 1
    /\ task.failed >= 1

Last(q) == q[Len(q)]

\* Session s holds a queue and reads, or is about to read, from it.
Attached(s) == sessions[s].pc \in {"replay", "live", "wait"}

\* Session s is in the tail loop of lines 248-261.
Tailing(s) == sessions[s].pc \in {"live", "wait"}

\* Session s streamed and is over (sentinel, timeout or disconnect).
Ended(s) == sessions[s].pc = "closed" /\ sessions[s].queue # NoQueue

\* Session b is the reconnection of the client of session a: a was opened
\* with cursor 0, received the first k >= 1 events and was dropped, and b
\* was opened afterwards with last_index = k.
Reconnects(a, b) ==
    /\ a # b
    /\ a \in sessions[b].after
    /\ Ended(a)
    /\ sessions[a].cursor = 0
    /\ Len(sessions[a].out) >= 1
    /\ sessions[a].out = SubSeq(emitted, 1, Len(sessions[a].out))
    /\ sessions[b].cursor = Len(sessions[a].out)

\* C2: a reconnected session that was tailing the running task ends only
\* when the task is through, having received exactly the events of index
\* >= k, in emission order, followed by the complete marker.
C2_ReconnectResumes ==
    [][ \A a, b \in Sessions :
          ( /\ Reconnects(a, b)
            /\ Tailing(b)
            /\ sessions'[b].pc = "ending" )
          =>
          /\ wk.pc = "done"
          /\ Events(sessions'[b].out) =
                SubSeq(emitted, sessions[b].cursor + 1, Len(emitted)) \o <<CompleteMarker>>
      ]_vars

\* C3: the stored events are the emitted events, position by position, so
\* that events[c:] is exactly the events emitted at index >= c, in order.
C3_ReplayFromCursor ==
    \A c \in 0..Len(emitted) :
        Events(EventsFrom(task.events, c)) = SubSeq(emitted, c + 1, Len(emitted))

\* C4: every photo has at most one outcome event; import_complete is emitted
\* once, after exactly one outcome event per photo, and carries the numbers
\* of photo_complete and photo_error events; a finished batch has emitted it.
C4_OneOutcomePerPhoto ==
    /\ \A n \in 1..Len(files) : Cardinality(Outcomes(n)) <= 1
    /\ Cardinality(Emitted("import_complete")) <= 1
    /\ \A k \in Emitted("import_complete") :
          /\ \A n \in 1..Len(files) :
                /\ Cardinality(Outcomes(n)) = 1
                /\ \A j \in Outcomes(n) : j < k
          /\ emitted[k].processed = Cardinality(Emitted("photo_complete"))
          /\ emitted[k].failed = Cardinality(Emitted("photo_error"))
    /\ wk.pc \in {"complete", "done"} => Emitted("import_complete") # {}

\* A finished batch with both kinds of outcome.
C4_Witness ==
    /\ wk.pc = "done"
    /\ Emitted("photo_complete") # {}
    /\ Emitted("photo_error") # {}

\* C5: when a session takes an event from a bus on which another session is
\* waiting, that event stays deliverable to the waiting session.
C5_FanOut ==
    [][ \A s, t \in Sessions :
          ( /\ s # t
            /\ Tailing(s)
            /\ sessions[t].pc = "wait"
            /\ sessions[s].queue = sessions[t].queue
            /\ sessions'[s].pc = "live"
            /\ Len(sessions'[s].out) = Len(sessions[s].out) + 1 )
          =>
          LET e == Last(sessions'[s].out)
          IN  \/ e \in Range(sessions'[t].out)
              \/ e \in Range(queues'[sessions'[t].queue])
      ]_vars

\* C6: the end of a session changes neither the task record nor the worker,
\* and once a session has ended every event the worker emits is still put
\* on the bus of every attached session, whether it attached before or
\* after that end.
C6_SessionEndIsolated ==
    [][ /\ (\E s \in Sessions : sessions[s].pc # "closed" /\ sessions'[s].pc = "closed")
            => UNCHANGED <<task, manager, wk, files, stored, emitted>>
        /\ \A t \in Sessions :
              ( /\ \E s \in Sessions \ {t} : Ended(s)
                /\ Attached(t)
                /\ Len(emitted') > Len(emitted) )
              => Last(emitted') \in Range(queues'[sessions[t].queue])
      ]_vars

\* C7: a session that is tailing the worker's bus of a task that has reached
\* a terminal status ends with the complete marker, never with the error of
\* the idle timeout.
C7_TerminalMarker ==
    [][ \A s \in Sessions :
          ( /\ Terminal(task)
            /\ Tailing(s)
            /\ sessions[s].queue = "mgr"
            /\ sessions'[s].pc = "ending" )
          => Last(sessions'[s].out) = CompleteMarker
      ]_vars

\* C8: in a finished batch with exactly one corrupt file and otherwise sound
\* photos, the corrupt photo has a photo_error and no photo_complete, every
\* other photo has a photo_complete, and import_complete.failed = 1.
C8_CorruptPhotoIsolated ==
    LET corrupt == { n \in 1..Len(files) : files[n].file = "corrupt" }
        sound == { n \in 1..Len(files) : files[n].file = "ok" /\ files[n].vision = "ok" }
    IN  ( /\ wk.pc = "done"
          /\ Cardinality(corrupt) = 1
          /\ corrupt \cup sound = 1..Len(files) )
        =>
        /\ \A n \in corrupt :
              /\ EmittedFor(n, {"photo_error"}) # {}
              /\ EmittedFor(n, {"photo_complete"}) = {}
        /\ \A n \in sound : EmittedFor(n, {"photo_complete"}) # {}
        /\ \A k \in Emitted("import_complete") : emitted[k].failed = 1

\* The worker has left photo n behind.
Handled(n) ==
    \/ wk.i > n
    \/ wk.i = n /\ wk.pc \in {"sleep", "loop"}
    \/ wk.pc \in {"complete", "done"}

\* C9: a failed vision analysis is signalled to the worker, which reports
\* photo_error for the photo, counts it as failed, emits no ai_complete or
\* photo_complete for it and stores nothing for it.
C9_VisionFailureFailsPhoto ==
    \A n \in 1..Len(files) :
        (files[n].vision = "fail" /\ Handled(n)) =>
            /\ AnalyzePhoto(files[n]).signal = "raised"
            /\ EmittedFor(n, {"photo_error"}) # {}
            /\ EmittedFor(n, {"ai_complete", "photo_complete"}) = {}
            /\ n \notin stored
            /\ manager.failed >= 1

\* C10: the status is pending exactly until the first photo is taken up,
\* processing from then on, terminal only when every photo has an outcome
\* and the worker is through; each step keeps the status or moves it one
\* stage forward, and a terminal status never changes.
C10_StatusInvariant ==
    /\ task.status = "pending" <=> (task # NoTask /\ wk.i = 0)
    /\ task.status = "processing" => wk.i >= 1
    /\ Terminal(task) =>
          /\ wk.pc = "done"
          /\ wk.i = Len(files)
          /\ \A n \in 1..Len(files) : Outcomes(n) # {}

C10_StatusStep ==
    \/ task.status' = task.status
    \/ <<task.status, task.status'>> \in
          { <<"absent", "pending">>, <<"pending", "processing">>,
            <<"processing", "completed">>, <<"processing", "failed">> }

C10_StatusMachine == []C10_StatusInvariant /\ [][C10_StatusStep]_vars

\* import_start has been emitted and the task is still pending.
C10_Witness ==
    /\ Len(emitted) = 1
    /\ task.status = "pending"

\* No stream was ever opened.
NoListener == \A s \in Sessions : sessions[s].pc = "new"

C11_Recorded ==
    (NoListener /\ emitted # <<>>) =>
        /\ EventOf(Last(task.events)) = Last(emitted)
        /\ SubSeq(queues["mgr"], 1, Len(emitted)) = emitted
        /\ Terminal(task) => \A n \in 1..Len(files) : Outcomes(n) # {}

\* C11: with no session attached, every event the worker emits is on its
\* queue and is the newest entry of the task record, and a created task
\* leads to a terminal status in which every photo has an outcome.
C11_NoListenerProgress ==
    /\ []C11_Recorded
    /\ (task # NoTask) ~> Terminal(task)

\* A finished batch of MaxPhotos photos whose events nobody has read.
C11_Witness ==
    /\ NoListener
    /\ Terminal(task)
    /\ Len(files) = MaxPhotos
    /\ Len(queues["mgr"]) = Len(emitted) + 1

\* C12: a message a session takes from the bus in live tailing carries no
\* event that the same session has already delivered.
C12_NoDuplicateDelivery ==
    [][ \A s \in Sessions :
          ( /\ sessions'[s].pc = "live"
            /\ Len(sessions'[s].out) = Len(sessions[s].out) + 1 )
          => EventOf(Last(sessions'[s].out)) \notin Range(Events(sessions[s].out))
      ]_vars

\* Session s was opened on the finished task with a cursor at or beyond the
\* end of its record.
BeyondEnd(s) ==
    /\ Terminal(task)
    /\ sessions[s].pc # "new"
    /\ sessions[s].cursor >= Len(task.events)

\* C13: a stream opened on a terminal task with a cursor >= its event count
\* delivers the summary built from the stored totals, then the complete
\* marker, and nothing else; it never tails the bus, whose contents stay as
\* the worker left them; every such request has the same output.
C13_IdempotentSummary ==
    LET full == << SummaryEvent(task), CompleteMarker >>
    IN  /\ \A s \in Sessions :
              BeyondEnd(s) =>
                /\ sessions[s].pc \in {"summary", "ending", "closed"}
                /\ Len(sessions[s].out) <= 2
                /\ sessions[s].out = SubSeq(full, 1, Len(sessions[s].out))
                /\ sessions[s].pc = "ending" => sessions[s].out = full
        /\ (\E s \in Sessions : BeyondEnd(s)) =>
                queues["mgr"] = emitted \o << Sentinel >>

\* The request was made twice, with different cursors, and both streams ran
\* to their end.
C13_Witness ==
    /\ \A s \in Sessions :
          /\ BeyondEnd(s)
          /\ sessions[s].pc = "closed"
          /\ Len(sessions[s].out) = 2
    /\ sessions["s1"].cursor # sessions["s2"].cursor
    /\ task.failed = 1

\* C14: a terminal status is completed exactly when no photo failed and
\* failed otherwise; it is set after import_complete was emitted, and the
\* sentinel is on the bus only once the status is terminal, as the last item
\* behind import_complete.
C14_CompletionOrder ==
    LET bus == queues["mgr"]
    IN  /\ Terminal(task) =>
              /\ Emitted("import_complete") # {}
              /\ task.status = "completed" <=> manager.failed = 0
              /\ task.status = "failed" <=> manager.failed > 0
              /\ manager.failed = Cardinality(Emitted("photo_error"))
        /\ Sentinel \in Range(bus) =>
              /\ Terminal(task)
              /\ Len(bus) >= 2
              /\ Last(bus) = Sentinel
              /\ bus[Len(bus) - 1].type = "import_complete"
        /\ NoListener => (Terminal(task) <=> Sentinel \in Range(bus))

\* A batch that ended as failed, with stored photos beside the failed one.
C14_Witness ==
    /\ task.status = "failed"
    /\ manager.processed >= 1
    /\ Sentinel \in Range(queues["mgr"])

\* The types of the events emitted for photo n, in emission order.
TypesOf(n) ==
    LET own == SelectSeq(emitted, LAMBDA e : e.photo = n)
    IN  [k \in 1..Len(own) |-> own[k].type]

\* The sub-sequence of a photo processed without error.
StageOrder(p) ==
    << "photo_start", "exif_extracted" >>
    \o (IF p.gps /\ p.geo THEN << "location_found" >> ELSE << >>)
    \o << "ai_analyzing", "ai_complete", "photo_complete" >>

\* C15: a photo with a photo_complete has exactly the events of its stage
\* order, location_found among them exactly when it has coordinates and the
\* geocoder returned an address; the events of one photo are contiguous and
\* photos follow each other in batch order.
C15_StageOrder ==
    /\ \A n \in 1..Len(files) :
          EmittedFor(n, {"photo_complete"}) # {} => TypesOf(n) = StageOrder(files[n])
    /\ \A j, k \in 1..Len(emitted) :
          (j < k /\ emitted[j].photo >= 1 /\ emitted[k].photo >= 1)
              => emitted[j].photo <= emitted[k].photo
    /\ \A j, k \in 1..Len(emitted) :
          (j < k /\ emitted[j].photo >= 1 /\ emitted[j].photo = emitted[k].photo)
              => \A l \in j..k : emitted[l].photo = emitted[j].photo

\* A finished batch with a located photo followed by a photo whose
\* coordinates the geocoder could not resolve, both stored.
C15_Witness ==
    /\ wk.pc = "done"
    /\ \E n \in 1..Len(files) :
          /\ n + 1 <= Len(files)
          /\ files[n].gps /\ files[n].geo
          /\ files[n + 1].gps /\ ~files[n + 1].geo
          /\ EmittedFor(n, {"photo_complete"}) # {}
          /\ EmittedFor(n + 1, {"photo_complete"}) # {}

BatchTerminal == import_tasks.status \in {"completed", "failed"}

\* C16: in every state of the batch task processed + failed <= total, and
\* processed + failed = total once the status is completed or failed.
C16_BatchCountersWithinTotal ==
    import_tasks # NoImportTask =>
        /\ import_tasks.processed + import_tasks.failed <= import_tasks.total
        /\ BatchTerminal =>
              import_tasks.processed + import_tasks.failed = import_tasks.total

\* Session s is between its attach and its finally block.
Streaming(s) == sessions[s].pc \in {"replay", "live", "wait", "summary", "ending"}

\* C17: the registry entry of the task is removed only by a step after which
\* no session is streaming any more, and once the task is terminal with no
\* session streaming no entry is left.
C17_BusRemoval ==
    [][ /\ (active_queues # NoQueue /\ active_queues' = NoQueue)
              => \A t \in Sessions : ~Streaming(t)'
        /\ (Terminal(task)' /\ \A t \in Sessions : ~Streaming(t)')
              => active_queues' = NoQueue
      ]_vars

\* C18: the temporary directory exists as long as the worker has files to
\* process in it, and no directory is left once the upload is over: after
\* the worker has returned, or when the request ended without a worker.
C18_TempDirRemoved ==
    /\ bw.pc \in {"queued", "loop", "photo", "finally"} => temp_dir = "exists"
    /\ bw.pc \in {"idle", "done"} => temp_dir # "exists"

\* C19: a call of create_task for a task id that has a record fails and
\* leaves the record as it was.
C19_CreateExistingFails ==
    [][ \A total \in 1..MaxPhotos :
          (task # NoTask /\ TaskCreate(total))
              => /\ reply'.create_task.outcome = "raised"
                 /\ task' = task
      ]_vars

\* The uploaded files of a request that have an extension of the allow-list.
Passing(us) ==
    { k \in 1..Len(us) : us[k].stem # "" /\ Lower(us[k].ext) \in image_extensions }

C21_UnknownTaskOnlyError ==
    [][\A s \in Sessions :
          (task = NoTask /\ sessions[s].pc = "new" /\ sessions'[s].pc # "new") =>
              /\ sessions'[s].out = <<ErrorEvent>>
              /\ sessions'[s].pc = "closed"
              /\ sessions'[s].queue = sessions[s].queue
              /\ task' = NoTask
              /\ active_queues' = active_queues
              /\ queues' = queues
              /\ UNCHANGED <<manager, wk, files, stored, emitted>>]_vars

\* A stream for an unknown id has ended with its error event, and its id has
\* no queue registered.
C21_Witness ==
    \E s \in Sessions :
        /\ task = NoTask
        /\ sessions[s].pc = "closed"
        /\ sessions[s].out = <<ErrorEvent>>
        /\ active_queues = NoQueue

\* ---------------------------------------------------------------- C22
\* The scores of a call in decimal arithmetic, in hundredths and tenths.
Clamped(h) == IF h < 100 THEN 100 ELSE IF h > 500 THEN 500 ELSE h

\* The tenths nearest to a score field clamped to the range (2.8 for none).
RoundedScores(value) ==
    IF value = None THEN {28}
    ELSE { k \in 10..50 : 10 * k - Clamped(value[1]) \in -5..5 }

\* The call of the example: {4.0, 3.0, 4.0, 3.0} and no creativity.
Example == <<Number(400), Number(300), Number(400), Number(300), None>>

\* The call of the state was made without a creativity value.
ScoredWithoutCreativity == scored.args # <<>> /\ scored.args[5] = None

\* C22 as stated: without a creativity value the result is the tenth nearest
\* to 0.25*composition + 0.20*color + 0.25*lighting + 0.20*sharpness +
\* 0.10*(mean of the four sub-scores), within [1.0, 5.0], and 3.7 for the
\* sub-scores {4.0, 3.0, 4.0, 3.0}.  (The sum is taken four times over, in
\* thousandths.)
C22_AsStated ==
    ScoredWithoutCreativity =>
        /\ \E t1 \in RoundedScores(scored.args[1]), t2 \in RoundedScores(scored.args[2]),
              t3 \in RoundedScores(scored.args[3]), t4 \in RoundedScores(scored.args[4]) :
               /\ Tenths(scored.overall) \in 10..50
               /\ 400 * Tenths(scored.overall)
                      - (100 * t1 + 80 * t2 + 100 * t3 + 80 * t4
                         + 10 * (t1 + t2 + t3 + t4)) \in -200..200
        /\ scored.args = Example => scored.overall = Double(37, 10)

\* C22, amended: without a creativity value the creativity term is the mean of
\* the four sub-scores rounded to one decimal, the result is the float of one
\* decimal within [1.0, 5.0] nearest to 0.25*composition + 0.20*color +
\* 0.25*lighting + 0.20*sharpness + 0.10*creativity, and for the sub-scores
\* {4.0, 3.0, 4.0, 3.0} the sum is 3.55 and the result 3.6.
C22_WeightedBlend ==
    ScoredWithoutCreativity =>
        /\ \E t1 \in RoundedScores(scored.args[1]), t2 \in RoundedScores(scored.args[2]),
              t3 \in RoundedScores(scored.args[3]), t4 \in RoundedScores(scored.args[4]) :
             \E cr \in { c \in 10..50 : 4 * c - (t1 + t2 + t3 + t4) \in -2..2 } :
               /\ Tenths(scored.overall) \in 10..50
               /\ scored.overall = Double(Tenths(scored.overall), 10)
               /\ 100 * Tenths(scored.overall)
                      - (25 * t1 + 20 * t2 + 25 * t3 + 20 * t4 + 10 * cr) \in -50..50
        /\ scored.args = Example => scored.overall = Double(36, 10)

\* The call of the example has returned 3.6.
C22_Witness ==
    scored.args = Example /\ scored.overall = Double(36, 10)

\* ---------------------------------------------------------------- C23
\* s is the only session of the task: it opened the stream with cursor 0
\* while the record was pending or processing, and no other stream was
\* opened.
SoleSession(s) ==
    /\ sessions[s].opened \in {"pending", "processing"}
    /\ sessions[s].cursor = 0
    /\ \A t \in Sessions \ {s} : sessions[t].pc = "new"

\* The messages of a sequence before its first complete marker.
RECURSIVE BeforeMarker(_)
BeforeMarker(out) ==
    IF out = <<>> \/ Head(out) = CompleteMarker THEN <<>>
    ELSE <<Head(out)>> \o BeforeMarker(Tail(out))

C24_CountersMatchEvents ==
    (task # NoTask /\ Suspended) =>
        /\ task.processed = Cardinality(Emitted("photo_complete"))
        /\ task.failed = Cardinality(Emitted("photo_error"))

\* ---------------------------------------------------------------- C25
\* C25: a stream contains at most one import_complete event, whatever the
\* state of the task and the cursor were when it was opened.
C25_OneImportComplete ==
    \A s \in Sessions :
        Cardinality({ k \in 1..Len(sessions[s].out) :
                        sessions[s].out[k].type = "import_complete" }) <= 1

\* ---------------------------------------------------------------- C26
\* C26: the k-th photo_start event of a batch carries progress.current = k
\* (the photos are started in the order of the batch, so it is the event of
\* photo k), whether or not earlier photos failed.
C26_ProgressCountsPhotos ==
    \A k \in Emitted("photo_start") :
        /\ emitted[k].current = emitted[k].photo
        /\ emitted[k].current = Cardinality({ j \in Emitted("photo_start") : j <= k })

\* ---------------------------------------------------------------- C27
\* C27: every ai_complete and photo_complete event carries scores within
\* [1.0, 5.0], whatever the analysis returned.  (overall, in tenths, stands
\* for the five score fields: process_photo reads them all in the same way.)
C27_ScoresInRange ==
    \A k \in Emitted("ai_complete") \cup Emitted("photo_complete") :
        emitted[k].overall \in 10..50

\* ---------------------------------------------------------------- C28
\* The file of a persisted photo record: file_path is the path the upload
\* was saved to, inside the temporary directory of the request.
FilePathExists(n) == temp_dir = "exists"

\* C28: once the batch task is terminal and its worker has returned, the
\* file_path of every photo record it persisted names a file that exists.
C28_PersistedPathsExist ==
    (BatchTerminal /\ bw.pc = "done") =>
        \A n \in bw.added : FilePathExists(n)

\* ---------------------------------------------------------------- C29
\* The loop l is inside _process_photo.
InProcessing(l) == loops[l].pc \in {"photo", "sleep"}

\* C29: from the return of stop() until the next call of start() no photo
\* is in processing: stop() has waited for the photo that was, and no loop
\* takes another item.
C29_StopWaits ==
    stopped => \A l \in LoopIds : ~InProcessing(l)

\* ---------------------------------------------------------------- C30
\* The loop task l is alive: created and not returned.
Consuming(l) == loops[l].pc \in {"created", "get", "photo", "sleep"}

\* C30: at most one _process_loop is alive, so at most one photo is in
\* processing, and the processing and current_photo stats describe it.
C30_OneLoop ==
    /\ Cardinality({ l \in LoopIds : Consuming(l) }) <= 1
    /\ Cardinality({ l \in LoopIds : InProcessing(l) }) <= 1
    /\ \A l \in LoopIds :
          InProcessing(l) => stats.processing = 1 /\ stats.current_photo = loops[l].photo
    /\ (\A l \in LoopIds : ~InProcessing(l)) => stats.processing = 0

====
